---- MODULE Spec2Model ----
(***************************************************************************)
(* A model of simple-cmap (src/src/map.c, src/include/map.h): a map kept   *)
(* as an unordered dynamic array of (key, value) pointer pairs, searched   *)
(* linearly with a comparator bound at creation.                           *)
(*                                                                         *)
(* Keys and values are pointers.  A key is one of three addresses; what a  *)
(* comparator sees is what it dereferences at that address (a C string, an *)
(* int, an unsigned int, a float, a double) or, for the pointer            *)
(* comparator, the address itself.  A value is a non-null address or NULL. *)
(* The caller never changes the objects the keys point to.                 *)
(*                                                                         *)
(* An unsigned int (size, capacity, an index) is held as the int with the  *)
(* same 32 bits: 0 .. 2^31-1 are themselves, 2^31 .. 2^32-1 are the        *)
(* negative numbers -2^31 .. -1.  The operators UInc, UDec, UAdd, USub,    *)
(* UDouble, ULt and ULe are the unsigned operations on that form, and the  *)
(* conversions between int and unsigned int leave it as it is.             *)
(***************************************************************************)
EXTENDS Integers, Sequences, FiniteSets

(***************************************************************************)
(* Bounds of the model.                                                    *)
(***************************************************************************)
\* The number of enumerated entries a map is filled up to.
MaxEntries == 3

(***************************************************************************)
(* Constants of the program and of the C implementation it is built for.   *)
(***************************************************************************)
NULL == 0
DefaultCapacity == 10
IntMax == 2147483647
IntMin == (-IntMax) - 1
TwoTo30 == 1073741824
UIntMax == -1
NotFound == -1
Failure == -1
Success == 0
NumericMismatch == -1

\* The key addresses, the value pointers and the capacities asked of create.
Keys == {1, 2, 3}
Values == {1, 2}
InitCaps == {0, 1, 2}
\* 2^31, 3 * 2^30 and 2^32 - 1 as unsigned ints.
WideCaps == {IntMin, -TwoTo30, UIntMax}

Comparators ==
  {"string", "string_nocase", "int", "uint", "float", "double", "ptr"}

\* The two orders in which a build may evaluate *s++ = tolower(*s).
EvalOrders == {"read_then_step", "step_then_read"}

(***************************************************************************)
(* The objects the key addresses point to.                                 *)
(***************************************************************************)
\* "lu", "Lu", "bob" as byte sequences (without the final NUL).
StringTable == << <<108, 117>>, <<76, 117>>, <<98, 111, 98>> >>
\* Two addresses hold equal numbers.
IntTable == <<5, 5, -7>>
UIntTable == <<5, 5, UIntMax>>
\* IEEE values: the two zeroes, a NaN, an ordinary number.
FloatTable == <<"+0", "-0", "nan">>
DoubleTable == <<"nan", "2.5", "2.5">>

Deref(table, p) == table[p]

Min(S) == CHOOSE x \in S : \A y \in S : x <= y

VARIABLES
  map,           \* the caller's Map*: "null" or "live"
  entries,       \* the occupied entries the caller put with enumerated keys
  fill,          \* occupied entries before them, put by Fill with other keys
  size,          \* impl->size
  capacity,      \* impl->capacity
  compare_func,  \* impl->compare_func
  ub,            \* an access outside the entry array has been executed
  last,          \* the last call made and what it returned
  expected,      \* per key, the value of the latest set call that compares equal
  onlySets,      \* no entry has been deleted since create
  initCap,       \* the capacity the map was created with
  heap,          \* the blocks map_create allocated that are still allocated
  temps          \* the buffers the comparator allocated during the last call
                 \* that are still allocated

vars == <<map, entries, fill, size, capacity, compare_func, ub,
          last, expected, onlySets, initCap, heap, temps>>

(***************************************************************************)
(* strcmp, tolower, strdup, str_lower.                                     *)
(***************************************************************************)
\* Only whether strcmp returns 0 matters to the map; its sign is kept.
Sign(n) == IF n < 0 THEN -1 ELSE IF n > 0 THEN 1 ELSE 0

RECURSIVE strcmp(_, _)
strcmp(s1, s2) ==
  IF s1 = <<>> /\ s2 = <<>> THEN 0
  ELSE IF s1 = <<>> THEN -1
  ELSE IF s2 = <<>> THEN 1
  ELSE IF Head(s1) # Head(s2) THEN Sign(Head(s1) - Head(s2))
  ELSE strcmp(Tail(s1), Tail(s2))

tolower(c) == IF c >= 65 /\ c <= 90 THEN c + 32 ELSE c

\* A fresh buffer holding the string and its terminating NUL (the
\* allocation is taken to succeed).
strdup(s) == s \o <<0>>

\* The C string that starts at position p of buffer buf.
RECURSIVE CString(_, _)
CString(buf, p) ==
  IF buf[p] = 0 THEN <<>> ELSE <<buf[p]>> \o CString(buf, p + 1)

\* while (*s) *s++ = tolower(*s); return s;
\* The read of s on the right is unsequenced with the s++ on the left.
RECURSIVE str_lower_from(_, _, _)
str_lower_from(buf, s, order) ==
  IF buf[s] = 0 THEN [buf |-> buf, ret |-> s]
  ELSE IF order = "read_then_step"
       THEN str_lower_from([buf EXCEPT ![s] = tolower(buf[s])], s + 1, order)
       ELSE str_lower_from([buf EXCEPT ![s] = tolower(buf[s + 1])], s + 1, order)

str_lower(buf, order) == str_lower_from(buf, 1, order)

(***************************************************************************)
(* The comparators.  Arguments are key addresses.                          *)
(***************************************************************************)
\* The comparison made on the lower-cased strings.
map_compare_string_keys_folded(key1, key2) ==
  LET string1 == Deref(StringTable, key1)
      string2 == Deref(StringTable, key2)
  IN  strcmp([i \in 1..Len(string1) |-> tolower(string1[i])],
             [i \in 1..Len(string2) |-> tolower(string2[i])])

map_compare_string_keys(key1, key2) ==
  strcmp(Deref(StringTable, key1), Deref(StringTable, key2))

map_compare_string_keys_ignoring_case(key1, key2, order) ==
  LET l1 == str_lower(strdup(Deref(StringTable, key1)), order)
      l2 == str_lower(strdup(Deref(StringTable, key2)), order)
      string1 == CString(l1.buf, l1.ret)
      string2 == CString(l2.buf, l2.ret)
  IN  strcmp(string1, string2)

\* The comparison made on the two pointers instead of the ints they point to.
map_compare_int_keys_by_address(intPtr1, intPtr2) ==
  IF intPtr1 = intPtr2 THEN 0 ELSE NumericMismatch

map_compare_int_keys(intPtr1, intPtr2) ==
  IF Deref(IntTable, intPtr1) = Deref(IntTable, intPtr2)
  THEN 0 ELSE NumericMismatch

map_compare_uint_keys(uintPtr1, uintPtr2) ==
  IF Deref(UIntTable, uintPtr1) = Deref(UIntTable, uintPtr2)
  THEN 0 ELSE NumericMismatch

\* IEEE ==: a NaN equals nothing, the two zeroes are equal.
IeeeEqual(x, y) ==
  /\ x # "nan"
  /\ y # "nan"
  /\ \/ x = y
     \/ {x, y} = {"+0", "-0"}

map_compare_float_keys(floatPtr1, floatPtr2) ==
  IF IeeeEqual(Deref(FloatTable, floatPtr1), Deref(FloatTable, floatPtr2))
  THEN 0 ELSE NumericMismatch

map_compare_double_keys(doublePtr1, doublePtr2) ==
  IF IeeeEqual(Deref(DoubleTable, doublePtr1), Deref(DoubleTable, doublePtr2))
  THEN 0 ELSE NumericMismatch

\* return ptrKey1 == ptrKey2;  (the C value of ==: 1 when true, 0 when false)
map_compare_ptr_keys(ptrKey1, ptrKey2) ==
  IF ptrKey1 = ptrKey2 THEN 1 ELSE 0

\* impl->compare_func(key1, key2) for the comparator f.
Compare(f, key1, key2, order) ==
  CASE f = "string" -> map_compare_string_keys(key1, key2)
    [] f = "string_nocase" ->
         map_compare_string_keys_ignoring_case(key1, key2, order)
    [] f = "int" -> map_compare_int_keys(key1, key2)
    [] f = "uint" -> map_compare_uint_keys(key1, key2)
    [] f = "float" -> map_compare_float_keys(key1, key2)
    [] f = "double" -> map_compare_double_keys(key1, key2)
    [] f = "ptr" -> map_compare_ptr_keys(key1, key2)

\* The bound comparator applied to two keys in the current state.
Cmp(key1, key2, order) == Compare(compare_func, key1, key2, order)

\* The evaluation orders that make a difference to a call of comparator f.
OrdersOf(f) == IF f = "string_nocase" THEN EvalOrders ELSE {"read_then_step"}

\* The buffers one call of comparator f allocates (the two strdup copies of
\* non-null keys) and the buffers it frees before it returns (both calls of
\* free are commented out).
TempsAllocated(f) == IF f = "string_nocase" THEN 2 ELSE 0
TempsFreed(f) == 0

(***************************************************************************)
(* find_entry_index.                                                       *)
(***************************************************************************)
\* u + 1, u - 1, u + v, -v and u - v modulo 2^32.
UInc(u) == IF u = IntMax THEN IntMin ELSE u + 1
UDec(u) == IF u = IntMin THEN IntMax ELSE u - 1
UAdd(u, v) ==
  IF u >= 0 /\ v >= 0 /\ u > IntMax - v
  THEN (u - IntMax - 1) + (v - IntMax - 1)
  ELSE IF u < 0 /\ v < 0 /\ u < IntMin - v
  THEN (u + IntMax + 1) + (v + IntMax + 1)
  ELSE u + v
UNeg(v) == IF v = IntMin THEN IntMin ELSE -v
USub(u, v) == UAdd(u, UNeg(v))
\* u * 2 modulo 2^32.
UDouble(u) ==
  IF u >= TwoTo30 THEN (2 * (u - TwoTo30) - IntMax) - 1
  ELSE IF u < -TwoTo30 THEN (2 * (u + TwoTo30) + IntMax) + 1
  ELSE 2 * u
\* u < v and u <= v as unsigned ints.
ULt(u, v) == IF (u < 0) = (v < 0) THEN u < v ELSE v < 0
ULe(u, v) == u = v \/ ULt(u, v)

\* The conversion of an unsigned int to int (return i; (int)impl->size).
ToInt(u) == u

\* The scan with its test inverted (!= 0 for == 0).
find_entry_index_inverted(key, order) ==
  LET hits == {j \in 1..Len(entries) : Cmp(entries[j].key, key, order) # 0}
  IN  IF hits = {} THEN NotFound ELSE ToInt(UAdd(fill, Min(hits) - 1))

\* The scan started at i = 1 instead of i = 0.
find_entry_index_from_one(key, order) ==
  LET hits == {j \in 2..Len(entries) : Cmp(entries[j].key, key, order) = 0}
  IN  IF hits = {} THEN NotFound ELSE ToInt(UAdd(fill, Min(hits) - 1))

\* The entries Fill put hold keys that compare unequal to every enumerated
\* key, so the scan passes them and the first match is an enumerated entry.
find_entry_index(key, order) ==
  LET hits == {j \in 1..Len(entries) : Cmp(entries[j].key, key, order) = 0}
  IN  IF hits = {} THEN NotFound ELSE ToInt(UAdd(fill, Min(hits) - 1))

\* The comparator calls the scan makes on the enumerated entries: up to and
\* including the first match, or all of them.
Comparisons(key, order) ==
  LET hits == {j \in 1..Len(entries) : Cmp(entries[j].key, key, order) = 0}
  IN  IF hits = {} THEN Len(entries) ELSE Min(hits)

\* The buffers the comparator calls of one scan leave allocated (a map that
\* Fill has filled is bound to a comparator that allocates none).
TempsLeftBy(key, order) ==
  (TempsAllocated(compare_func) - TempsFreed(compare_func))
    * Comparisons(key, order)

\* The position in entries of the array slot with the given index.
Slot(index) == USub(index, fill) + 1

\* The value map_get returns for key on a live map.
Lookup(key, order) ==
  LET index == find_entry_index(key, order)
  IN  IF index # NotFound /\ index >= 0 THEN entries[Slot(index)].value
      ELSE NULL

\* A call: the function, its key and value arguments, what it returned, the
\* index find_entry_index gave it and, for a comparator, which one it was.
Call(op, key, val, ret, idx) ==
  [op |-> op, key |-> key, val |-> val, ret |-> ret, idx |-> idx,
   func |-> "none"]
NoCall == Call("none", 0, 0, 0, NotFound)

\* No successful set has a key that compares equal (values are non-null).
NoVal == NULL
NoExpectation == [k \in Keys |-> NoVal]

TypeOK ==
  /\ map \in {"null", "live"}
  /\ entries \in Seq([key : Keys, value : Values])
  /\ fill \in Int
  /\ size \in Int
  /\ capacity \in Int
  /\ compare_func \in Comparators \cup {"none"}
  /\ ub \in BOOLEAN
  /\ expected \in [Keys -> Values \cup {NoVal}]
  /\ onlySets \in BOOLEAN
  /\ initCap \in Int
  /\ heap \subseteq {"impl", "entries"}
  /\ temps \in Nat
  /\ size = UAdd(fill, Len(entries))

Init ==
  /\ map = "null"
  /\ entries = <<>>
  /\ fill = 0
  /\ size = 0
  /\ capacity = 0
  /\ compare_func = "none"
  /\ ub = FALSE
  /\ last = NoCall
  /\ expected = NoExpectation
  /\ onlySets = TRUE
  /\ initCap = 0
  /\ heap = {}
  /\ temps = 0

(***************************************************************************)
(* map_create.                                                             *)
(***************************************************************************)
\* map_create without free(impl) when the entries are not allocated.
map_create_keeps_impl(initial_capacity, f, implOk, entriesOk) ==
  LET cap == IF initial_capacity = 0 THEN DefaultCapacity
             ELSE initial_capacity
  IN  /\ map = "null"
      /\ ~ub
      /\ IF implOk /\ entriesOk
         THEN /\ map' = "live"
              /\ size' = 0
              /\ capacity' = cap
              /\ compare_func' = f
              /\ initCap' = cap
              /\ heap' = {"impl", "entries"}
              /\ last' = [Call("create", 0, initial_capacity, 1, NotFound)
                            EXCEPT !.func = f]
         ELSE /\ heap' = IF implOk THEN {"impl"} ELSE {}
              /\ last' = [Call("create", 0, initial_capacity, NULL, NotFound)
                            EXCEPT !.func = f]
              /\ UNCHANGED <<map, size, capacity, compare_func, initCap>>
      /\ entries' = <<>>
      /\ fill' = 0
      /\ expected' = NoExpectation
      /\ onlySets' = TRUE
      /\ temps' = 0
      /\ UNCHANGED ub

\* The two malloc calls succeed or fail as implOk and entriesOk say.
map_create(initial_capacity, f, implOk, entriesOk) ==
  LET cap == IF initial_capacity = 0 THEN DefaultCapacity
             ELSE initial_capacity
  IN  /\ map = "null"
      /\ ~ub
      /\ IF implOk /\ entriesOk
         THEN /\ map' = "live"
              /\ size' = 0
              /\ capacity' = cap
              /\ compare_func' = f
              /\ initCap' = cap
              /\ heap' = {"impl", "entries"}
              /\ last' = [Call("create", 0, initial_capacity, 1, NotFound)
                            EXCEPT !.func = f]
         ELSE \* No impl, or free(impl) after no entries.
              /\ heap' = {}
              /\ last' = [Call("create", 0, initial_capacity, NULL, NotFound)
                            EXCEPT !.func = f]
              /\ UNCHANGED <<map, size, capacity, compare_func, initCap>>
      /\ entries' = <<>>
      /\ fill' = 0
      /\ expected' = NoExpectation
      /\ onlySets' = TRUE
      /\ temps' = 0
      /\ UNCHANGED ub

Create ==
  \E c \in InitCaps, f \in Comparators, implOk \in BOOLEAN, entriesOk \in BOOLEAN :
    map_create(c, f, implOk, entriesOk)

(***************************************************************************)
(* map_set.                                                                *)
(***************************************************************************)
\* expected after a successful set(key, value): every key the set key
\* compares equal to now expects value.
Expect(key, value, order) ==
  [k \in Keys |-> IF Cmp(key, k, order) = 0 THEN value ELSE expected[k]]

\* The doubled capacity, in unsigned int arithmetic.
new_capacity_of(cap) == UDouble(cap)

\* Whether set(key, ...) reaches the realloc call.
MustGrow(key, order) ==
  /\ map = "live"
  /\ find_entry_index(key, order) = NotFound
  /\ ULe(capacity, size)

\* The outcomes of realloc that make a difference to set(key, ...).
ReallocOutcomes(key, order) ==
  IF MustGrow(key, order) THEN BOOLEAN ELSE {TRUE}

\* The update with the key written in place of the value.
set_update_writes_key(key, value, index, order) ==
  /\ IF index >= 0
     THEN /\ entries' = [entries EXCEPT ![Slot(index)].key = key]
          /\ ub' = FALSE
     ELSE /\ entries' = entries
          /\ ub' = TRUE
  /\ last' = Call("set", key, value, Success, index)
  /\ expected' = Expect(key, value, order)
  /\ UNCHANGED <<size, capacity>>

\* The update made after the test of size against capacity and the growth.
set_update_grows(key, value, index, order) ==
  /\ IF index >= 0
     THEN /\ entries' = [entries EXCEPT ![Slot(index)].value = value]
          /\ ub' = FALSE
     ELSE /\ entries' = entries
          /\ ub' = TRUE
  /\ last' = Call("set", key, value, Success, index)
  /\ expected' = Expect(key, value, order)
  /\ capacity' = IF ULe(capacity, size) THEN new_capacity_of(capacity)
                 ELSE capacity
  /\ UNCHANGED size

\* index != -1: impl->entries[index].value = value; return 0;
set_update(key, value, index, order) ==
  /\ IF index >= 0
     THEN /\ entries' = [entries EXCEPT ![Slot(index)].value = value]
          /\ ub' = FALSE
     ELSE /\ entries' = entries
          /\ ub' = TRUE
  /\ last' = Call("set", key, value, Success, index)
  /\ expected' = Expect(key, value, order)
  /\ UNCHANGED <<size, capacity>>

\* The failed growth with impl->capacity assigned before new_entries is tested.
set_alloc_failed_capacity_first(key, value) ==
  /\ last' = Call("set", key, value, Failure, NotFound)
  /\ capacity' = new_capacity_of(capacity)
  /\ UNCHANGED <<entries, size, ub, expected>>

\* realloc returned NULL: return -1; the old block is as it was.
set_alloc_failed(key, value) ==
  /\ last' = Call("set", key, value, Failure, NotFound)
  /\ UNCHANGED <<entries, size, capacity, ub, expected>>

\* The growth, if the map is full, and the new entry at index size.
set_append(key, value, order) ==
  LET cap1 == IF ULe(capacity, size) THEN new_capacity_of(capacity)
              ELSE capacity
  IN  /\ Len(entries) < MaxEntries
      /\ capacity' = cap1
      /\ entries' = Append(entries, [key |-> key, value |-> value])
      /\ size' = UInc(size)
      /\ ub' = ULe(cap1, size)
      /\ last' = Call("set", key, value, Success, NotFound)
      /\ expected' = Expect(key, value, order)

map_set(key, value, reallocOk, order) ==
  /\ ~ub
  /\ IF map = "null"
     THEN /\ last' = Call("set", key, value, Failure, NotFound)
          /\ UNCHANGED <<entries, size, capacity, ub, expected>>
     ELSE LET index == find_entry_index(key, order)
          IN  IF index # NotFound
              THEN set_update(key, value, index, order)
              ELSE IF ULe(capacity, size) /\ ~reallocOk
              THEN set_alloc_failed(key, value)
              ELSE set_append(key, value, order)
  /\ temps' = IF map = "null" THEN 0 ELSE TempsLeftBy(key, order)
  /\ UNCHANGED <<map, fill, compare_func, onlySets, initCap, heap>>

Set ==
  \E key \in Keys, value \in Values, order \in OrdersOf(compare_func) :
    \E reallocOk \in ReallocOutcomes(key, order) :
      map_set(key, value, reallocOk, order)

(***************************************************************************)
(* map_get.                                                                *)
(***************************************************************************)
\* map_get moving the entry it finds to index 0.
map_get_move_to_front(key, order) ==
  /\ ~ub
  /\ IF map = "null"
     THEN /\ last' = Call("get", key, 0, NULL, NotFound)
          /\ ub' = FALSE
          /\ entries' = entries
     ELSE LET index == find_entry_index(key, order)
          IN  /\ last' = Call("get", key, 0, Lookup(key, order), index)
              /\ ub' = (index # NotFound /\ index < 0)
              /\ entries' = IF index # NotFound /\ index >= 0
                            THEN <<entries[Slot(index)]>>
                                   \o SubSeq(entries, 1, Slot(index) - 1)
                                   \o SubSeq(entries, Slot(index) + 1,
                                             Len(entries))
                            ELSE entries
  /\ temps' = IF map = "null" THEN 0 ELSE TempsLeftBy(key, order)
  /\ UNCHANGED <<map, fill, size, capacity, compare_func,
                 expected, onlySets, initCap, heap>>

map_get(key, order) ==
  /\ ~ub
  /\ IF map = "null"
     THEN /\ last' = Call("get", key, 0, NULL, NotFound)
          /\ ub' = FALSE
     ELSE LET index == find_entry_index(key, order)
          IN  /\ last' = Call("get", key, 0, Lookup(key, order), index)
              /\ ub' = (index # NotFound /\ index < 0)
  /\ temps' = IF map = "null" THEN 0 ELSE TempsLeftBy(key, order)
  /\ UNCHANGED <<map, entries, fill, size, capacity, compare_func,
                 expected, onlySets, initCap, heap>>

Get == \E key \in Keys, order \in OrdersOf(compare_func) : map_get(key, order)

(***************************************************************************)
(* map_delete.                                                             *)
(***************************************************************************)
SizeofMapEntry == 16

\* Whether count * sizeof(MapEntry) is a value of int (bytes_to_move).
BytesFit(count) == count >= 0 /\ count <= IntMax \div SizeofMapEntry

\* The sequence without its element at position p.
RemoveAt(s, p) == SubSeq(s, 1, p - 1) \o SubSeq(s, p + 1, Len(s))

\* The removal that puts the last entry in the place of the one removed.
delete_found_swap_last(key, index) ==
  LET count == UDec(USub(size, index))
      shifts == ULt(index, UDec(size))
  IN  /\ entries' = IF Slot(index) = Len(entries)
                    THEN SubSeq(entries, 1, Len(entries) - 1)
                    ELSE SubSeq([entries EXCEPT
                                   ![Slot(index)] = entries[Len(entries)]],
                                1, Len(entries) - 1)
      /\ size' = UDec(size)
      /\ ub' = (shifts /\ (index < 0 \/ ~BytesFit(count)))
      /\ last' = Call("delete", key, 0, 0, index)
      /\ expected' = NoExpectation
      /\ onlySets' = FALSE

\* index != -1: the entries after index move one place down, size--.
delete_found(key, index) ==
  LET count == UDec(USub(size, index))
      shifts == ULt(index, UDec(size))
  IN  /\ entries' = RemoveAt(entries, Slot(index))
      /\ size' = UDec(size)
      /\ ub' = (shifts /\ (index < 0 \/ ~BytesFit(count)))
      /\ last' = Call("delete", key, 0, 0, index)
      /\ expected' = NoExpectation
      /\ onlySets' = FALSE

map_delete(key, order) ==
  /\ ~ub
  /\ IF map = "null"
     THEN /\ last' = Call("delete", key, 0, 0, NotFound)
          /\ UNCHANGED <<entries, size, ub, expected, onlySets>>
     ELSE LET index == find_entry_index(key, order)
          IN  IF index # NotFound
              THEN delete_found(key, index)
              ELSE /\ last' = Call("delete", key, 0, 0, NotFound)
                   /\ UNCHANGED <<entries, size, ub, expected, onlySets>>
  /\ temps' = IF map = "null" THEN 0 ELSE TempsLeftBy(key, order)
  /\ UNCHANGED <<map, fill, capacity, compare_func, initCap, heap>>

Delete ==
  \E key \in Keys, order \in OrdersOf(compare_func) : map_delete(key, order)

(***************************************************************************)
(* map_get_size, map_get_capacity, map_free.                               *)
(***************************************************************************)
\* map_get_size without its test of map.
map_get_size_unchecked ==
  /\ ~ub
  /\ last' = Call("getSize", 0, 0, ToInt(size), NotFound)
  /\ temps' = 0
  /\ UNCHANGED <<map, entries, fill, size, capacity, compare_func,
                 ub, expected, onlySets, initCap, heap>>

map_get_size ==
  /\ ~ub
  /\ last' = Call("getSize", 0, 0,
                  IF map = "null" THEN Failure ELSE ToInt(size), NotFound)
  /\ temps' = 0
  /\ UNCHANGED <<map, entries, fill, size, capacity, compare_func,
                 ub, expected, onlySets, initCap, heap>>

map_get_capacity ==
  /\ ~ub
  /\ last' = Call("getCapacity", 0, 0,
                  IF map = "null" THEN Failure ELSE ToInt(capacity), NotFound)
  /\ temps' = 0
  /\ UNCHANGED <<map, entries, fill, size, capacity, compare_func,
                 ub, expected, onlySets, initCap, heap>>

\* free(impl->entries); free(impl); the caller drops its pointer.
map_free ==
  /\ ~ub
  /\ last' = Call("free", 0, 0, 0, NotFound)
  /\ IF map = "null"
     THEN UNCHANGED <<map, entries, fill, size, capacity, compare_func,
                      expected, onlySets, initCap, heap>>
     ELSE /\ map' = "null"
          /\ heap' = {}
          /\ entries' = <<>>
          /\ fill' = 0
          /\ size' = 0
          /\ capacity' = 0
          /\ compare_func' = "none"
          /\ expected' = NoExpectation
          /\ onlySets' = TRUE
          /\ initCap' = 0
  /\ temps' = 0
  /\ UNCHANGED ub

(***************************************************************************)
(* The comparators are public: a caller may apply one to two keys.  The    *)
(* result does not depend on any map, so the calls are made while the      *)
(* caller holds none.                                                      *)
(***************************************************************************)
CompareKeys ==
  \E f \in Comparators, key1 \in Keys, key2 \in Keys, order \in EvalOrders :
    /\ map = "null"
    /\ order \in OrdersOf(f)
    /\ ~ub
    /\ last' = [op |-> "compare", key |-> key1, val |-> key2,
                ret |-> Compare(f, key1, key2, order), idx |-> NotFound,
                func |-> f]
    /\ temps' = TempsAllocated(f) - TempsFreed(f)
    /\ UNCHANGED <<map, entries, fill, size, capacity, compare_func, ub,
                   expected, onlySets, initCap, heap>>

Next ==
  \/ Create
  \/ CompareKeys
  \/ Set
  \/ Get
  \/ Delete
  \/ map_get_size
  \/ map_get_capacity
  \/ map_free

Spec == Init /\ [][Next]_vars

(***************************************************************************)
(* Large maps.  CreateWide asks for a capacity of 2^31 or more; Fill       *)
(* stands for n successive map_set calls on an empty map whose keys are    *)
(* pairwise unequal, unequal to every enumerated key, and fit the capacity *)
(* (no call finds its key, none grows the storage, each appends).          *)
(***************************************************************************)
CreateWide ==
  \E c \in WideCaps, f \in Comparators, implOk \in BOOLEAN, entriesOk \in BOOLEAN :
    map_create(c, f, implOk, entriesOk)

\* The comparators under which that many pairwise unequal keys exist.
Fillable == {"string", "int", "uint", "float", "double"}

Fill ==
  \E n \in {capacity, UDec(capacity)} :
    /\ map = "live"
    /\ ~ub
    /\ size = 0
    /\ n # 0
    /\ compare_func \in Fillable
    /\ fill' = n
    /\ size' = n
    /\ last' = Call("fill", 0, 0, Success, NotFound)
    /\ temps' = 0
    /\ UNCHANGED <<map, entries, capacity, compare_func, ub, expected,
                   onlySets, initCap, heap>>

NextWide ==
  \/ Next
  \/ CreateWide
  \/ Fill

SpecWide == Init /\ [][NextWide]_vars

(***************************************************************************)
(* Properties.                                                             *)
(***************************************************************************)
\* Some occupied entry's key compares equal to key.
Present(key) ==
  \E j \in 1..Len(entries), order \in OrdersOf(compare_func) :
    Cmp(entries[j].key, key, order) = 0

\* C1: on a map that has only been set since its creation, a get with a key
\* that compares equal to the key of some earlier successful set returns the
\* value of the latest successful set whose key compares equal to it.
C1_GetReturnsLatestSet ==
  (map = "live" /\ onlySets /\ last.op = "get" /\ expected[last.key] # NoVal)
    => last.ret = expected[last.key]

\* C2: no two occupied entries at different indices have keys that compare
\* equal (comparator result 0) under the bound comparator.
C2_NoEqualKeys ==
  map = "live" =>
    \A i \in 1..Len(entries), j \in 1..Len(entries) :
      i # j =>
        \A order \in OrdersOf(compare_func) :
          Cmp(entries[i].key, entries[j].key, order) # 0

\* A set through another address of a key that is present has updated the
\* entry in place, in a map of two or more entries.
C2_Witness ==
  /\ map = "live"
  /\ Len(entries) >= 2
  /\ last.op = "set"
  /\ last.ret = Success
  /\ last.idx # NotFound
  /\ entries[Slot(last.idx)].key # last.key

\* C3: after every call that leaves a live map, capacity >= 1 and
\* size <= capacity, and the call has not made the capacity of a live map
\* smaller.
C3_CapacityBounds ==
  [][map' = "live" =>
       /\ ULe(1, capacity')
       /\ ULe(size', capacity')
       /\ (map = "live" => ULe(capacity, capacity'))]_vars

\* C4: a delete with a key that is present makes get of that key return
\* NULL and size one less, and leaves every other key (another pointer, not
\* comparing equal to it) that was retrievable retrievable with the same
\* value.
C4_DeletePresent ==
  [][\A key \in Keys, order \in OrdersOf(compare_func) :
       (map = "live" /\ last'.op = "delete" /\ last'.key = key
          /\ Present(key)) =>
         /\ Lookup(key, order)' = NULL
         /\ size' = UDec(size)
         /\ \A k \in Keys :
              (k # key /\ Cmp(k, key, order) # 0 /\ Present(k)) =>
                Lookup(k, order)' = Lookup(k, order)]_vars

\* C5: a delete with a key that no entry's key compares equal to leaves
\* size, capacity and the entry sequence as they were.
C5_DeleteAbsentIsNoOp ==
  [][(map = "live" /\ last'.op = "delete" /\ ~Present(last'.key)) =>
       /\ size' = size
       /\ capacity' = capacity
       /\ entries' = entries
       /\ fill' = fill]_vars

\* A delete has been made on a map that holds entries and from which nothing
\* has been deleted: its key was absent.
C5_Witness ==
  /\ map = "live"
  /\ last.op = "delete"
  /\ onlySets
  /\ Len(entries) >= 2
  /\ ~Present(last.key)


\* C6: a successful set(k, v2) made right after a successful set(k, v1), with
\* k comparing equal to itself, leaves size as the first set left it, and
\* get(k) then returns v2.
C6_SetTwice ==
  [][\A key \in Keys, order \in OrdersOf(compare_func) :
       (/\ map = "live"
        /\ last.op = "set" /\ last.ret = Success /\ last.key = key
        /\ last'.op = "set" /\ last'.ret = Success /\ last'.key = key
        /\ Cmp(key, key, order) = 0) =>
         /\ size' = size
         /\ Lookup(key, order)' = last'.val]_vars

\* A set has found the entry stored under its own key, which compares equal
\* to itself, and get of the key returns the value just set.
C6_Witness ==
  /\ map = "live"
  /\ last.op = "set"
  /\ last.ret = Success
  /\ last.idx # NotFound
  /\ entries[Slot(last.idx)].key = last.key
  /\ \A order \in OrdersOf(compare_func) :
       /\ Cmp(last.key, last.key, order) = 0
       /\ Lookup(last.key, order) = last.val

\* C7: a set that must grow the storage (its key is absent and size has
\* reached capacity) and whose realloc fails returns -1 and leaves size,
\* capacity and every entry as they were, every key retrievable as before.
C7_FailedGrowLeavesMap ==
  [][\A key \in Keys, value \in Values, order \in OrdersOf(compare_func) :
       (/\ map = "live"
        /\ ~Present(key)
        /\ ULe(capacity, size)
        /\ map_set(key, value, FALSE, order)) =>
         /\ last'.ret = Failure
         /\ size' = size
         /\ capacity' = capacity
         /\ entries' = entries
         /\ fill' = fill
         /\ \A k \in Keys : Lookup(k, order)' = Lookup(k, order)]_vars

\* A set has failed on a full map that holds entries.
C7_Witness ==
  /\ map = "live"
  /\ last.op = "set"
  /\ last.ret = Failure
  /\ Len(entries) >= 1
  /\ size = capacity
  /\ ~Present(last.key)

\* capacity is at least twice c, as numbers.
AtLeastTwice(cap, c) == c >= 0 /\ ULe(UDouble(c), cap)

\* C8: once a map holds more entries than the capacity c it was created
\* with, its capacity is at least 2 * c; the capacity changes only in a set
\* of an absent key made at size = capacity, which makes it exactly twice
\* what it was and keeps every entry where it was.
C8_GrowthDoubles ==
  [][(map = "live" /\ map' = "live") =>
       /\ ULt(initCap, size') => AtLeastTwice(capacity', initCap)
       /\ capacity' # capacity =>
            /\ last'.op = "set"
            /\ last'.ret = Success
            /\ \A key \in Keys : last'.key = key => ~Present(key)
            /\ size = capacity
            /\ AtLeastTwice(capacity', capacity)
            /\ capacity' = UDouble(capacity)
            /\ fill' = fill
            /\ SubSeq(entries', 1, Len(entries)) = entries]_vars

\* The string at a key address with every letter lower-cased.
LowerCased(key) ==
  [i \in 1..Len(Deref(StringTable, key)) |-> tolower(Deref(StringTable, key)[i])]

\* C9: map_compare_ptr_keys returns 0 exactly when its arguments are the
\* same pointer, and a get on a map bound to it finds an entry exactly when
\* the map holds the identical pointer as a key.
C9_PtrEqualIffSame ==
  /\ (last.op = "compare" /\ last.func = "ptr") =>
       ((last.ret = 0) <=> (last.key = last.val))
  /\ (map = "live" /\ compare_func = "ptr" /\ last.op = "get") =>
       ((last.idx # NotFound) <=>
          (\E j \in 1..Len(entries) : entries[j].key = last.key))

\* C10: the case-insensitive comparator returns 0 exactly when the
\* lower-cased forms of the two strings are the same, and a set on a map
\* bound to it replaces a value only under a key whose lower-cased form is
\* that of the set key (any other key adds an entry).
C10_NoCaseEqualIffLowerEqual ==
  /\ (last.op = "compare" /\ last.func = "string_nocase") =>
       ((last.ret = 0) <=> (LowerCased(last.key) = LowerCased(last.val)))
  /\ (map = "live" /\ compare_func = "string_nocase" /\ last.op = "set"
        /\ last.ret = Success /\ last.idx # NotFound) =>
       LowerCased(entries[Slot(last.idx)].key) = LowerCased(last.key)

\* C11: map_compare_string_keys returns 0 exactly when the two keys are the
\* same character sequence; in a map bound to it, once "lu" (address 1) and
\* "Lu" (address 2) have both been set and nothing has been deleted, they are
\* two entries, and get of each returns the value last set under it.
C11_ExactStringKeys ==
  /\ (last.op = "compare" /\ last.func = "string") =>
       ((last.ret = 0) <=>
          (Deref(StringTable, last.key) = Deref(StringTable, last.val)))
  /\ (/\ map = "live"
      /\ compare_func = "string"
      /\ onlySets
      /\ expected[1] # NoVal
      /\ expected[2] # NoVal) =>
       /\ size >= 2
       /\ \E i \in 1..Len(entries), j \in 1..Len(entries) :
            /\ i # j
            /\ entries[i].key = 1
            /\ entries[j].key = 2
            /\ \A order \in OrdersOf(compare_func) :
                 /\ Lookup(1, order) = entries[i].value
                 /\ Lookup(2, order) = entries[j].value
       /\ last.op = "get" => last.ret = expected[last.key]

\* set("lu", v1) and set("Lu", v2) with v1 # v2 have made a map of two
\* entries bound to the exact-string comparator, and get("Lu") returned v2.
C11_Witness ==
  /\ map = "live"
  /\ compare_func = "string"
  /\ size = 2
  /\ entries[1].key = 1
  /\ entries[2].key = 2
  /\ entries[1].value # entries[2].value
  /\ last.op = "get"
  /\ last.key = 2
  /\ last.ret = entries[2].value

Numeric == {"int", "uint", "float", "double"}

\* Whether the scalars at two key addresses are equal (the C operator ==).
ScalarsEqual(f, key1, key2) ==
  CASE f = "int" -> Deref(IntTable, key1) = Deref(IntTable, key2)
    [] f = "uint" -> Deref(UIntTable, key1) = Deref(UIntTable, key2)
    [] f = "float" -> IeeeEqual(Deref(FloatTable, key1), Deref(FloatTable, key2))
    [] f = "double" ->
         IeeeEqual(Deref(DoubleTable, key1), Deref(DoubleTable, key2))

\* C12: each numeric comparator returns 0 when the two scalars are equal and
\* -1 when they are not; in a map bound to one, a set, get or delete through
\* an address other than the stored one whose scalar equals the stored
\* key's updates the value of, returns the value of, or removes that same
\* entry.
C12_NumericKeysByValue ==
  [][/\ (last'.op = "compare" /\ last'.func \in Numeric) =>
          last'.ret = IF ScalarsEqual(last'.func, last'.key, last'.val)
                      THEN 0 ELSE -1
     /\ (map = "live" /\ compare_func \in Numeric) =>
          \A k \in Keys, j \in 1..Len(entries) :
            (/\ entries[j].key # k
             /\ ScalarsEqual(compare_func, entries[j].key, k)
             /\ last'.key = k) =>
              /\ (last'.op = "set" /\ last'.ret = Success) =>
                   /\ size' = size
                   /\ Len(entries') = Len(entries)
                   /\ entries'[j].key = entries[j].key
                   /\ entries'[j].value = last'.val
              /\ last'.op = "get" => last'.ret = entries[j].value
              /\ last'.op = "delete" =>
                   /\ size' = size - 1
                   /\ entries' = RemoveAt(entries, j)]_vars

\* A set on a map bound to a numeric comparator has replaced the value of an
\* entry stored under another address.
C12_Witness ==
  /\ map = "live"
  /\ compare_func \in Numeric
  /\ last.op = "set"
  /\ last.ret = Success
  /\ last.idx # NotFound
  /\ entries[Slot(last.idx)].key # last.key
  /\ entries[Slot(last.idx)].value = last.val

\* C13: when a call of the case-insensitive comparator, or a set, get or
\* delete on a map bound to it, has returned, none of the buffers the
\* comparator allocated during the call is still allocated.
C13_NoTempBuffersLeft ==
  (\/ last.op = "compare" /\ last.func = "string_nocase"
   \/ /\ map = "live"
      /\ compare_func = "string_nocase"
      /\ last.op \in {"set", "get", "delete"}) =>
    temps = 0

\* C14: on a null map reference getSize, getCapacity and set return -1, get
\* returns NULL, and these calls, delete and free leave everything as it is.
C14_NullMap ==
  [][(/\ map = "null"
      /\ last'.op \in {"getSize", "getCapacity", "set", "get", "delete",
                       "free"}) =>
       /\ last'.op \in {"getSize", "getCapacity", "set"} => last'.ret = -1
       /\ last'.op = "get" => last'.ret = NULL
       /\ UNCHANGED <<map, entries, fill, size, capacity, compare_func,
                      heap, ub>>]_vars

\* getCapacity has been called on a null map reference and returned -1.
C14_Witness ==
  /\ map = "null"
  /\ last.op = "getCapacity"
  /\ last.ret = -1

\* C15: a create(n, cmp) whose two allocations succeed returns a map of
\* size 0 bound to cmp, of capacity n when n > 0 and 10 when n = 0; a create
\* one of whose allocations fails returns NULL and leaves no block allocated.
C15_Create ==
  [][\A n \in InitCaps \cup WideCaps, f \in Comparators,
        implOk \in BOOLEAN, entriesOk \in BOOLEAN :
       map_create(n, f, implOk, entriesOk) =>
         IF implOk /\ entriesOk
         THEN /\ last'.ret # NULL
              /\ map' = "live"
              /\ size' = 0
              /\ Len(entries') = 0
              /\ compare_func' = f
              /\ capacity' = IF n = 0 THEN 10 ELSE n
         ELSE /\ last'.ret = NULL
              /\ map' = "null"
              /\ heap' = {}]_vars

\* create(0, cmp) has returned a map: its capacity is 10 and its size 0.
C15_Witness ==
  /\ map = "live"
  /\ last.op = "create"
  /\ last.val = 0
  /\ last.ret # NULL
  /\ capacity = 10
  /\ size = 0

\* C16: a get, whether it finds its key or not, leaves the size, the
\* capacity, the bound comparator and the entry sequence (keys, values,
\* order) as they were.
C16_GetIsReadOnly ==
  [][last'.op = "get" =>
       UNCHANGED <<map, size, capacity, compare_func, entries, fill,
                   heap>>]_vars

\* A get has found its key at an index other than 0.
C16_Witness ==
  /\ map = "live"
  /\ last.op = "get"
  /\ last.idx # NotFound
  /\ Len(entries) >= 2
  /\ Slot(last.idx) >= 2
  /\ last.ret = entries[Slot(last.idx)].value

\* C17: a set(k, v) on a map that holds an entry whose key compares equal
\* to k returns 0 and changes only the value of the first such entry, to v:
\* its key stays the stored one, the number and the places of the entries,
\* the size and the capacity stay as they were, whether or not the map is
\* full.
C17_UpdateInPlace ==
  [][\A key \in Keys, order \in OrdersOf(compare_func) :
       (/\ map = "live"
        /\ last'.op = "set"
        /\ last'.key = key
        /\ Present(key)) =>
         LET p == Min({j \in 1..Len(entries) :
                        Cmp(entries[j].key, key, order) = 0})
         IN  /\ last'.ret = Success
             /\ size' = size
             /\ capacity' = capacity
             /\ fill' = fill
             /\ Len(entries') = Len(entries)
             /\ entries'[p].key = entries[p].key
             /\ entries'[p].value = last'.val
             /\ \A q \in 1..Len(entries) : q # p => entries'[q] = entries[q]]_vars

\* A set on a full map of two or more entries has replaced the value of an
\* entry stored under another key reference, which the entry still holds.
C17_Witness ==
  /\ map = "live"
  /\ last.op = "set"
  /\ last.ret = Success
  /\ last.idx # NotFound
  /\ size = capacity
  /\ Len(entries) >= 2
  /\ entries[Slot(last.idx)].key # last.key
  /\ entries[Slot(last.idx)].value = last.val

\* C18: a successful set of a key that is not present puts the new entry at
\* index size, after all the others, which stay where they are; a delete
\* that finds its key at index i moves every entry after i one index down
\* and leaves every entry before i where it is (also when i is the last
\* index or the only one).
C18_InsertionOrder ==
  [][\A key \in Keys, order \in OrdersOf(compare_func) :
       (map = "live" /\ last'.key = key) =>
         /\ (last'.op = "set" /\ last'.ret = Success /\ ~Present(key)) =>
              /\ fill' = fill
              /\ size' = size + 1
              /\ Len(entries') = Len(entries) + 1
              /\ entries'[Len(entries) + 1] = [key |-> key, value |-> last'.val]
              /\ \A q \in 1..Len(entries) : entries'[q] = entries[q]
         /\ (last'.op = "delete" /\ Present(key)) =>
              LET i == Min({j \in 1..Len(entries) :
                             Cmp(entries[j].key, key, order) = 0})
              IN  /\ fill' = fill
                  /\ size' = size - 1
                  /\ Len(entries') = Len(entries) - 1
                  /\ \A q \in 1..Len(entries) :
                       /\ q < i => entries'[q] = entries[q]
                       /\ q > i => entries'[q - 1] = entries[q]]_vars

\* A delete has removed an entry that had two entries after it.
C18_Witness ==
  /\ map = "live"
  /\ last.op = "delete"
  /\ last.idx # NotFound
  /\ Len(entries) >= Slot(last.idx) + 1

\* C19: on a live map getSize and getCapacity return a number that is not
\* negative and is the stored size or capacity, so that a result of -1
\* comes only from a null map reference.
C19_SizeAndCapacityNonNegative ==
  /\ (map = "live" /\ last.op = "getSize") =>
       (last.ret >= 0 /\ last.ret = size)
  /\ (map = "live" /\ last.op = "getCapacity") =>
       (last.ret >= 0 /\ last.ret = capacity)
  /\ (last.op \in {"getSize", "getCapacity"} /\ last.ret = -1) =>
       map = "null"

\* C20: a successful set writes an entry at an index that is at least 0 and
\* less than the capacity the map has when the write is made: the index it
\* found for an update, the index size for an append, the capacity being
\* the doubled one if the set has grown the storage.
C20_WritesBelowCapacity ==
  [][(map = "live" /\ last'.op = "set" /\ last'.ret = Success) =>
       IF last'.idx = NotFound
       THEN ULt(size, capacity')
       ELSE last'.idx >= 0 /\ ULt(last'.idx, capacity')]_vars
====
